---- MODULE Spec2Model ----
(***************************************************************************)
(* Model of detector.py: the Detector constructor, Detector.train with its *)
(* cosine schedule and checkpoint decision, Detector.test with its sample  *)
(* cap, and Detector.save_model.                                           *)
(*                                                                         *)
(* Tensors are modelled by the length of their first (batch) dimension.    *)
(* The parameters of the model object (net_single) are modelled by the     *)
(* number of optimizer steps applied to them, so that two epochs never     *)
(* share a parameter state.  The file system is a set of directories and   *)
(* a set of files.                                                         *)
(***************************************************************************)
EXTENDS Integers, Sequences, FiniteSets, TLC

\* ---------------------------------------------------------------- bounds
MaxBatch == 20
MaxBatches == 4
MaxLoss == 1
MaxEpoch == 3
MaxInterval == 2
MaxTrainBatches == 2
MaxDevices == 2

\* ------------------------------------------------------ program constants
SampleCap == 40
InitBestScore == 1000
InitStep == 1

VARIABLES
    \* constructor arguments / fields of the Detector
    optimizer, checkpoint_dir, devices, interval, batch_size,
    train_loader, test_loader,
    \* file system
    dirs, files,
    \* attributes created by the constructor
    net, net_single, opt, criterion,
    \* control
    pc, error,
    \* locals of train
    max_epoch, writer, epoch_size, T_max, last_epoch, best_score, step,
    epoch, train_batch_idx, score, logged,
    \* history of train: validations that reached a decision, saves made
    val_log, saves,
    \* locals of test
    tpc, test_batch_idx, count, total_loss, imgs, pred_hms, gt_hms,
    pred_masks, gt_masks, batch_losses, result

argVars == <<optimizer, checkpoint_dir, devices, interval, batch_size,
             train_loader, test_loader>>
objVars == <<net, net_single, opt, criterion>>
trainVars == <<max_epoch, writer, epoch_size, T_max, last_epoch, best_score,
               step, epoch, train_batch_idx, score, logged, val_log, saves>>
testVars == <<tpc, test_batch_idx, count, total_loss, imgs, pred_hms, gt_hms,
              pred_masks, gt_masks, batch_losses, result>>
vars == <<argVars, dirs, files, objVars, pc, error, trainVars, testVars>>

\* ----------------------------------------------------------------- helpers
Min(a, b) == IF a <= b THEN a ELSE b

CeilDiv(a, b) == (a + b - 1) \div b

RECURSIVE SumSeq(_)
SumSeq(s) == IF s = <<>> THEN 0 ELSE Head(s) + SumSeq(Tail(s))

\* a local name that has not been assigned yet
Unbound == -1

NoError == [type |-> "none", msg |-> <<>>]
NoResult == [total_loss |-> Unbound, imgs |-> 0, pred_hms |-> 0, gt_hms |-> 0,
             pred_masks |-> 0, gt_masks |-> 0]

\* ------------------------------------------------------------- file system
SavedModels == <<"saved_models">>
RunsSavedModels == <<"runs", "saved_models">>
CheckpointDirs == {SavedModels, RunsSavedModels}

\* the directory trees the constructor may find: closed under parents
DirTrees == {{}, {SavedModels}, {<<"runs">>}, {<<"runs">>, SavedModels},
             {<<"runs">>, RunsSavedModels},
             {<<"runs">>, SavedModels, RunsSavedModels}}

Parent(path) == SubSeq(path, 1, Len(path) - 1)

\* os.path.exists(path)
PathExists(path, ds) == path \in ds

\* os.mkdir(path) succeeds only when the parent directory exists
MkdirOk(path, ds) == Parent(path) = <<>> \/ Parent(path) \in ds

checkpoint_name == "Detection"

\* the file name save_model formats
CheckpointPath(dir, name, comment) ==
    IF comment = "None"
    THEN [dir |-> dir, name |-> <<"best_model", name>>]
    ELSE [dir |-> dir, name |-> <<"best_model", name, comment>>]

\* torch.save(obj, path): the file at path now holds obj
TorchSave(fs, path, obj) ==
    {f \in fs : f.path # path} \cup {[path |-> path, content |-> obj]}

\* save_model(checkpoint_dir, comment)
save_model(fs, dir, comment, model) ==
    TorchSave(fs, CheckpointPath(dir, checkpoint_name, comment), model)

\* ------------------------------------------------------------- constructor
OptimizerNames == {"sgd", "adam", "rmsprop", "SGD"}

DeviceLists == {[i \in 1..n |-> i - 1] : n \in 0..MaxDevices}

\* the wrapper the constructor binds to self.net, by number of devices
NetFor(devs) ==
    IF Len(devs) = 0 THEN "undefined"
    ELSE IF Len(devs) = 1 THEN "cuda"
    ELSE "DataParallel"

\* the optimizer the constructor creates, "raise" for the else branch
OptFor(name) ==
    IF name = "sgd" THEN "SGD"
    ELSE IF name = "adam" THEN "Adam"
    ELSE "raise"

OptimizerError(name) ==
    [type |-> "Exception", msg |-> <<"Optimizer", name, "Not", "Exists">>]

\* test loaders: n batches of batch size b, the last one possibly partial
LoadersOf(b, n) ==
    {[i \in 1..n |-> IF i < n THEN b ELSE last] : last \in 1..b}

TrainInitLocals ==
    /\ max_epoch = 0 /\ writer = FALSE /\ epoch_size = 0 /\ T_max = 0
    /\ last_epoch = 0 /\ best_score = 0 /\ step = 0 /\ epoch = 0
    /\ train_batch_idx = 0 /\ score = Unbound /\ logged = 0
    /\ val_log = <<>> /\ saves = <<>>

TestInitLocals ==
    /\ tpc = "off" /\ test_batch_idx = Unbound /\ count = 0 /\ total_loss = 0
    /\ imgs = <<>> /\ pred_hms = <<>> /\ gt_hms = <<>>
    /\ pred_masks = <<>> /\ gt_masks = <<>>
    /\ batch_losses = <<>> /\ result = NoResult

\* Detector(...) has been called and no statement of __init__ has run yet
InitCtor ==
    /\ optimizer \in OptimizerNames
    /\ checkpoint_dir \in CheckpointDirs
    /\ dirs \in DirTrees
    /\ devices \in DeviceLists
    /\ interval = 1
    /\ batch_size = 1
    /\ train_loader = 1
    /\ test_loader = <<1>>
    /\ files = {}
    /\ net = "undefined" /\ net_single = 0
    /\ opt = "undefined" /\ criterion = "undefined"
    /\ pc = "ctor_mkdir"
    /\ error = NoError
    /\ TrainInitLocals
    /\ TestInitLocals

\* lines 22-36: field assignments, then the checkpoint directory
CtorMkdir ==
    /\ pc = "ctor_mkdir"
    /\ IF PathExists(checkpoint_dir, dirs)
       THEN /\ pc' = "ctor_net"
            /\ UNCHANGED <<dirs, error>>
       ELSE IF MkdirOk(checkpoint_dir, dirs)
            THEN /\ dirs' = dirs \cup {checkpoint_dir}
                 /\ pc' = "ctor_net"
                 /\ UNCHANGED error
            ELSE /\ error' = [type |-> "FileNotFoundError",
                              msg |-> checkpoint_dir]
                 /\ pc' = "ctor_raised"
                 /\ UNCHANGED dirs
    /\ UNCHANGED <<argVars, files, objVars, trainVars, testVars>>

\* lines 38-44: self.net_single, and self.net by the number of devices
CtorNet ==
    /\ pc = "ctor_net"
    /\ net' = NetFor(devices)
    /\ pc' = "ctor_opt"
    /\ UNCHANGED <<argVars, dirs, files, net_single, opt, criterion, error,
                   trainVars, testVars>>

\* lines 46-53: the optimizer, or the exception for an unknown name
CtorOptimizer ==
    /\ pc = "ctor_opt"
    /\ IF OptFor(optimizer) = "raise"
       THEN /\ error' = OptimizerError(optimizer)
            /\ pc' = "ctor_raised"
            /\ UNCHANGED opt
       ELSE /\ opt' = OptFor(optimizer)
            /\ pc' = "ctor_crit"
            /\ UNCHANGED error
    /\ UNCHANGED <<argVars, dirs, files, net, net_single, criterion,
                   trainVars, testVars>>

\* line 55: the loss criterion; the constructor returns the Detector
CtorCriterion ==
    /\ pc = "ctor_crit"
    /\ criterion' = "CountLoss"
    /\ pc' = "idle"
    /\ UNCHANGED <<argVars, dirs, files, net, net_single, opt, error,
                   trainVars, testVars>>

NextCtor == CtorMkdir \/ CtorNet \/ CtorOptimizer \/ CtorCriterion

SpecInit == InitCtor /\ [][NextCtor]_vars

\* --------------------------------------------------------- Detector.test
\* line 141: the condition that leaves the batch loop
BreakOnCapExceeded(c) == c > SampleCap
BreakOnCap(c) == c >= SampleCap

\* torch.cat(chunks)
Cat(chunks) == SumSeq(chunks)

\* tensor[: 40]
Truncate(length) == Min(length, SampleCap)

AttributeError == [type |-> "AttributeError", msg |-> <<"net">>]

\* lines 112-120: self.net.eval(), then the empty accumulators
TestEnter ==
    /\ tpc = "call"
    /\ IF net = "undefined"
       THEN /\ error' = AttributeError
            /\ pc' = "raised"
            /\ tpc' = "off"
            /\ UNCHANGED <<test_batch_idx, count, total_loss, imgs, pred_hms,
                           gt_hms, pred_masks, gt_masks, batch_losses, result>>
       ELSE /\ imgs' = <<>> /\ gt_hms' = <<>> /\ pred_hms' = <<>>
            /\ gt_masks' = <<>> /\ pred_masks' = <<>>
            /\ total_loss' = 0
            /\ count' = 0
            /\ test_batch_idx' = Unbound
            /\ batch_losses' = <<>>
            /\ result' = NoResult
            /\ tpc' = "loop"
            /\ UNCHANGED <<pc, error>>
    /\ UNCHANGED <<argVars, dirs, files, objVars, trainVars>>

\* lines 121-142: one batch of the test loader.  The loss of the batch
\* (what self.criterion gives on it) is drawn here and recorded in
\* batch_losses; the code itself never computes it.
TestBatch ==
    /\ tpc = "loop"
    /\ test_batch_idx + 1 < Len(test_loader)
    /\ \E l \in 0..MaxLoss :
        LET i == test_batch_idx + 1
            shape0 == test_loader[i + 1]
        IN  /\ test_batch_idx' = i
            /\ imgs' = Append(imgs, shape0)
            /\ pred_hms' = Append(pred_hms, shape0)
            /\ gt_hms' = Append(gt_hms, shape0)
            /\ pred_masks' = Append(pred_masks, shape0)
            /\ gt_masks' = Append(gt_masks, shape0)
            /\ batch_losses' = Append(batch_losses, l)
            /\ count' = count + shape0
            /\ tpc' = IF BreakOnCap(count + shape0) THEN "cat" ELSE "loop"
    /\ UNCHANGED <<argVars, dirs, files, objVars, pc, error, trainVars,
                   total_loss, result>>

\* line 121: the loader is exhausted
TestLoopEnd ==
    /\ tpc = "loop"
    /\ test_batch_idx + 1 = Len(test_loader)
    /\ tpc' = "cat"
    /\ UNCHANGED <<argVars, dirs, files, objVars, pc, error, trainVars,
                   test_batch_idx, count, total_loss, imgs, pred_hms, gt_hms,
                   pred_masks, gt_masks, batch_losses, result>>

\* lines 143-149: concatenate, divide total_loss, truncate and return.
\* total_loss is divided by batch_idx + 1; the dividend is the integer the
\* loop left in total_loss.
TestReturn ==
    /\ tpc = "cat"
    /\ LET tl == total_loss \div (test_batch_idx + 1)
       IN  /\ total_loss' = tl
           /\ result' = [total_loss |-> tl,
                         imgs |-> Truncate(Cat(imgs)),
                         pred_hms |-> Truncate(Cat(pred_hms)),
                         gt_hms |-> Truncate(Cat(gt_hms)),
                         pred_masks |-> Truncate(Cat(pred_masks)),
                         gt_masks |-> Truncate(Cat(gt_masks))]
    /\ tpc' = "ret"
    /\ pc' = IF pc = "test" THEN "decision" ELSE "idle"
    /\ UNCHANGED <<argVars, dirs, files, objVars, error, trainVars,
                   test_batch_idx, count, imgs, pred_hms, gt_hms,
                   pred_masks, gt_masks, batch_losses>>

\* a caller outside train calls detector.test()
TestCall ==
    /\ pc = "idle"
    /\ pc' = "test_direct"
    /\ tpc' = "call"
    /\ UNCHANGED <<argVars, dirs, files, objVars, error, trainVars,
                   test_batch_idx, count, total_loss, imgs, pred_hms, gt_hms,
                   pred_masks, gt_masks, batch_losses, result>>

\* a constructed Detector: what __init__ leaves behind when it returns
Constructed ==
    /\ optimizer \in {"sgd", "adam"}
    /\ checkpoint_dir = SavedModels
    /\ dirs = {SavedModels}
    /\ devices \in DeviceLists
    /\ files = {}
    /\ net = NetFor(devices) /\ net_single = 0
    /\ opt = OptFor(optimizer) /\ criterion = "CountLoss"
    /\ pc = "idle"
    /\ error = NoError
    /\ TrainInitLocals
    /\ TestInitLocals

InitTest ==
    /\ Constructed
    /\ interval = 1
    /\ train_loader = 1
    /\ batch_size \in 1..MaxBatch
    /\ \E n \in 1..MaxBatches : test_loader \in LoadersOf(batch_size, n)

NextTest == TestCall \/ TestEnter \/ TestBatch \/ TestLoopEnd \/ TestReturn

SpecTest == InitTest /\ [][NextTest]_vars

\* -------------------------------------------------------- Detector.train
\* line 107: the comparison that decides whether the model is saved
ScoreAtLeastBest(best, new) == best <= new
ScoreNotWorse(best, new) == best >= new

UnboundLocalError == [type |-> "UnboundLocalError", msg |-> <<"score">>]

\* lines 65-67: the head of the epoch loop for epoch e; self.net.train()
\* needs the attribute net
LoopHead(e, last) ==
    IF e < last
    THEN IF net = "undefined" THEN "raised" ELSE "for_batch"
    ELSE "done"

LoopHeadError(e, last) ==
    IF e < last /\ net = "undefined" THEN AttributeError ELSE NoError

\* lines 60-64 and the first evaluation of the loop head
TrainCall ==
    /\ pc = "idle"
    /\ \E me \in 0..MaxEpoch, w \in BOOLEAN, es \in 1..MaxTrainBatches :
        /\ max_epoch' = me
        /\ writer' = w
        /\ epoch_size' = es
        /\ T_max' = me * es
        /\ last_epoch' = 0
        /\ best_score' = InitBestScore
        /\ step' = InitStep
        /\ epoch' = 0
        /\ pc' = LoopHead(0, me)
        /\ error' = LoopHeadError(0, me)
    /\ train_batch_idx' = 0
    /\ score' = Unbound
    /\ logged' = 0
    /\ val_log' = <<>>
    /\ saves' = <<>>
    /\ UNCHANGED <<argVars, dirs, files, objVars, testVars>>

\* lines 68-85: one training batch: optimizer step, two scalars to the
\* writer when there is one, step += 1, scheduler.step(step)
TrainBatch ==
    /\ pc = "for_batch"
    /\ train_batch_idx < train_loader
    /\ net_single' = net_single + 1
    /\ logged' = IF writer THEN logged + 2 ELSE logged
    /\ step' = step + 1
    /\ last_epoch' = step + 1
    /\ train_batch_idx' = train_batch_idx + 1
    /\ UNCHANGED <<argVars, dirs, files, net, opt, criterion, pc, error,
                   max_epoch, writer, epoch_size, T_max, best_score, epoch,
                   score, val_log, saves, testVars>>

\* line 87 with the epoch's batches done: validate, or go to the next epoch
EpochEnd ==
    /\ pc = "for_batch"
    /\ train_batch_idx = train_loader
    /\ IF epoch % interval = 0
       THEN /\ pc' = "test"
            /\ tpc' = "call"
            /\ UNCHANGED <<epoch, train_batch_idx, error>>
       ELSE /\ epoch' = epoch + 1
            /\ train_batch_idx' = 0
            /\ pc' = LoopHead(epoch + 1, max_epoch)
            /\ error' = LoopHeadError(epoch + 1, max_epoch)
            /\ UNCHANGED tpc
    /\ UNCHANGED <<argVars, dirs, files, objVars, max_epoch, writer,
                   epoch_size, T_max, last_epoch, best_score, step, score,
                   logged, val_log, saves, test_batch_idx, count, total_loss,
                   imgs, pred_hms, gt_hms, pred_masks, gt_masks, batch_losses,
                   result>>

\* lines 90-109 after test has returned: with a writer, log and bind score;
\* then compare with best_score and save.  The frame of test is gone.
CheckpointDecision ==
    /\ pc = "decision"
    /\ LET sc == IF writer THEN result.total_loss ELSE score
       IN  /\ score' = sc
           /\ logged' = IF writer THEN logged + 5 ELSE logged
           /\ IF sc = Unbound
              THEN /\ error' = UnboundLocalError
                   /\ pc' = "raised"
                   /\ UNCHANGED <<best_score, files, saves, val_log, epoch,
                                  train_batch_idx>>
              ELSE /\ IF ScoreNotWorse(best_score, sc)
                      THEN /\ best_score' = sc
                           /\ files' = save_model(files, checkpoint_dir,
                                                  "None", net_single)
                           /\ saves' = Append(saves, epoch)
                      ELSE UNCHANGED <<best_score, files, saves>>
                   /\ val_log' = Append(val_log, [epoch |-> epoch,
                                                  score |-> sc,
                                                  model |-> net_single])
                   /\ epoch' = epoch + 1
                   /\ train_batch_idx' = 0
                   /\ pc' = LoopHead(epoch + 1, max_epoch)
                   /\ error' = LoopHeadError(epoch + 1, max_epoch)
    /\ tpc' = "off"
    /\ test_batch_idx' = Unbound /\ count' = 0 /\ total_loss' = 0
    /\ imgs' = <<>> /\ pred_hms' = <<>> /\ gt_hms' = <<>>
    /\ pred_masks' = <<>> /\ gt_masks' = <<>> /\ batch_losses' = <<>>
    /\ UNCHANGED <<argVars, dirs, objVars, max_epoch, writer, epoch_size,
                   T_max, last_epoch, step, result>>

InitTrain ==
    /\ Constructed
    /\ interval \in 1..MaxInterval
    /\ train_loader \in 1..MaxTrainBatches
    /\ batch_size = MaxBatch
    /\ \E n \in 1..MaxBatches : test_loader = [i \in 1..n |-> batch_size]

NextTrain ==
    \/ TrainCall \/ TrainBatch \/ EpochEnd \/ CheckpointDecision
    \/ TestEnter \/ TestBatch \/ TestLoopEnd \/ TestReturn

SpecTrain == InitTrain /\ [][NextTrain]_vars

\* ----------------------------------------------------------------- claims
\* the path save_model writes with comment=None
BestModelFile == CheckpointPath(checkpoint_dir, checkpoint_name, "None")

MinScore(log) ==
    CHOOSE m \in {log[i].score : i \in DOMAIN log} :
        \A j \in DOMAIN log : m <= log[j].score

\* C1: once train has returned after at least one validation, the file
\* <checkpoint_dir>/best_model_<checkpoint_name>.pt exists and holds the
\* model state of a validated epoch whose score is the minimum of the
\* validation scores of the run.
C1_BestCheckpointSaved ==
    (pc = "done" /\ val_log # <<>>) =>
        \E f \in files :
            /\ f.path = BestModelFile
            /\ \E i \in DOMAIN val_log :
                /\ val_log[i].model = f.content
                /\ val_log[i].score = MinScore(val_log)

C1_Witness ==
    /\ pc = "done"
    /\ Len(val_log) >= 2
    /\ \E f \in files : f.path = BestModelFile /\ f.content = net_single

\* C2: the first value test returns is the mean of the losses of the batches
\* it processed (stated without division: total_loss * batches = sum).
C2_MeanLoss ==
    tpc = "ret" =>
        result.total_loss * Len(batch_losses) = SumSeq(batch_losses)

\* C3: test fetches exactly min(n, ceil(40 / b)) batches, and the five
\* collections it returns have one common length, at most 40.
C3_SampleCap ==
    tpc = "ret" =>
        /\ test_batch_idx + 1 =
               Min(Len(test_loader), CeilDiv(SampleCap, batch_size))
        /\ Len(imgs) = test_batch_idx + 1
        /\ result.imgs = result.pred_hms
        /\ result.imgs = result.gt_hms
        /\ result.imgs = result.pred_masks
        /\ result.imgs = result.gt_masks
        /\ result.imgs <= SampleCap
        /\ result.imgs = Min(count, SampleCap)

C3_Witness ==
    /\ tpc = "ret"
    /\ test_batch_idx + 1 < Len(test_loader)
    /\ count > SampleCap
    /\ result.imgs = SampleCap

\* the states of the training state machine
Phase ==
    CASE pc = "idle" -> "Idle"
      [] pc = "for_batch" -> "TrainingEpoch"
      [] pc = "test" -> "Validating"
      [] pc = "decision" -> "CheckpointDecision"
      [] pc = "done" -> "Done"
      [] OTHER -> "Aborted"

TrainTransitions ==
    {<<"Idle", "TrainingEpoch">>, <<"Idle", "Done">>,
     <<"TrainingEpoch", "Validating">>, <<"TrainingEpoch", "Done">>,
     <<"Validating", "CheckpointDecision">>,
     <<"CheckpointDecision", "TrainingEpoch">>,
     <<"CheckpointDecision", "Done">>}

\* C4: train moves Idle -> TrainingEpoch -> Validating -> CheckpointDecision
\* -> TrainingEpoch ... -> Done: Validating follows the batches of epoch e
\* exactly when e is a multiple of interval, every Validating is followed by
\* a CheckpointDecision and that by the next epoch or Done, and Done is
\* entered with exactly max_epoch epochs trained.  Stated for a Detector
\* whose net is defined.
C4_StateMachine ==
    [][net # "undefined" =>
        /\ Phase # Phase' => <<Phase, Phase'>> \in TrainTransitions
        /\ (Phase = "TrainingEpoch" /\ (Phase' # Phase \/ epoch' # epoch)) =>
               (Phase' = "Validating" <=> epoch % interval = 0)
        /\ Phase' = "Done" => epoch' = max_epoch']_vars

\* C5: at a checkpoint decision that compares a score, the model is saved if
\* and only if the new score is strictly lower than the best score so far;
\* otherwise nothing is written and best_score is unchanged; best_score
\* never increases.
C5_SaveIffStrictlyLower ==
    [][(pc = "decision" /\ pc' # "decision" /\ pc' # "raised") =>
        /\ (saves' # saves) <=> (score' < best_score)
        /\ ~(score' < best_score) =>
               (files' = files /\ best_score' = best_score)
        /\ best_score' <= best_score]_vars

\* C6: a constructor call with an optimizer name other than sgd and adam
\* ends by raising an error that names the optimizer, with no optimizer and
\* no criterion created.
C6_InvalidOptimizerFails ==
    (optimizer \notin {"sgd", "adam"} /\ pc \in {"idle", "ctor_raised"}) =>
        /\ pc = "ctor_raised"
        /\ \E i \in DOMAIN error.msg : error.msg[i] = optimizer
        /\ opt = "undefined"
        /\ criterion = "undefined"

\* C7: whatever directories exist when the constructor is called, it raises
\* no error for the checkpoint directory, and the directory exists from then
\* on.
C7_CheckpointDirCreated ==
    pc # "ctor_mkdir" =>
        /\ error.type # "FileNotFoundError"
        /\ checkpoint_dir \in dirs

ValidatedEpochs == {e \in 0..(max_epoch - 1) : e % interval = 0}

\* C8: a run of train without a writer on a Detector whose net is defined
\* ends without error, having made a checkpoint decision (and, as a run with
\* a writer does, a save) for every validated epoch.
C8_WriterIndependent ==
    (net # "undefined" /\ ~writer /\ pc \in {"done", "raised"}) =>
        /\ pc = "done"
        /\ error = NoError
        /\ Len(val_log) = Cardinality(ValidatedEpochs)
        /\ Len(saves) = Cardinality(ValidatedEpochs)

\* C9: when the train loader yields epoch_size batches, the index given to
\* the scheduler advances once per training batch and never exceeds
\* T_max = max_epoch * epoch_size.
C9_SchedulerWithinPeriod ==
    (pc \notin {"idle"} /\ epoch_size = train_loader) =>
        /\ step = InitStep + net_single
        /\ last_epoch \in {0, step}
        /\ last_epoch <= T_max

\* C10: a Detector the constructor returned has self.net defined.
C10_NetDefined ==
    pc = "idle" => net # "undefined"

====
